---- MODULE Spec2Model ----
(***************************************************************************)
(* State-machine model of the limit-order matching engine:                 *)
(*   OrderBookService (src/src/services/orderBookService.ts) driving       *)
(*   MatchingEngine   (src/src/services/matchingEngine.ts) over the        *)
(*   OrderBook model  (models/orderbook.ts, models/order.ts).              *)
(*                                                                         *)
(* DecimalValue is an exact decimal; the model represents a decimal by an  *)
(* integer number of ticks, so plus/minus/min/gt/lte are integer           *)
(* arithmetic.  priceLevels is a Map keyed by price.toString(); equal      *)
(* decimals have equal canonical strings, so the model keys a level by the *)
(* price value itself.                                                     *)
(***************************************************************************)
EXTENDS Integers, Sequences, FiniteSets, TLC

\* ------------------------------------------------------------------ bounds
MaxPrice == 2
MaxAmount == 2
MaxCmds == 3
MaxClock == 1

Prices == 1..MaxPrice
Amounts == 1..MaxAmount
Sides == {"BUY", "SELL"}
Pairs == {"BTC/USDC"}
Accounts == {"a1"}

VARIABLES
    orderBooks,    \* OrderBookService.orderBooks : pair -> OrderBook
    trades,        \* OrderBookService.trades
    nextTradeId,   \* MatchingEngine.nextTradeId
    now,           \* the wall clock read by Date.now()
    processed,     \* the raw orders handed to processRawOrder so far, in order
    lastTrades,    \* newTrades of the last handleCreateOrder
    lastRemoved,   \* return value of the last removeFromOrderBook
    prevBooks,     \* orderBooks as it was before the last processRawOrder
    prevTrades,    \* trades as it was before the last processRawOrder
    prevNextTradeId, \* nextTradeId as it was before the last processRawOrder
    cancelledVolume, \* sum of the amounts of the entries removed by cancels
    cancelledAt,   \* the accepted cancels: order_id and Len(trades) at that time
    matching,      \* the call of matchOrder in progress, when its loops are
                   \* followed iteration by iteration (SpecSteps)
    lastError,     \* what the last processRawOrder threw ("none" when it returned)
    halted         \* processRawOrders was left by an exception

vars == <<orderBooks, trades, nextTradeId, now, processed, lastTrades,
          lastRemoved, prevBooks, prevTrades, prevNextTradeId,
          cancelledVolume, cancelledAt, matching, lastError, halted>>

\* ------------------------------------------------------------ small helpers
Min(a, b) == IF a <= b THEN a ELSE b

RECURSIVE SumAmounts(_)
SumAmounts(s) == IF s = <<>> THEN 0 ELSE Head(s).amount + SumAmounts(Tail(s))

Range(s) == {s[i] : i \in 1..Len(s)}

\* Array.prototype.shift on a copy: the sequence without its first element
shift(s) == Tail(s)

C31_Mutant_splice(s, i) == s

\* Array.prototype.splice(i, 1): the sequence without its i-th element (1-based)
splice(s, i) == [k \in 1..(Len(s) - 1) |-> IF k < i THEN s[k] ELSE s[k + 1]]

C16_Mutant_findOrderIndex(orders, order_id) ==
    IF \E i \in 1..Len(orders) : orders[i].order_id = order_id
    THEN CHOOSE i \in 1..Len(orders) :
            /\ orders[i].order_id = order_id
            /\ \A j \in 1..(i - 1) : orders[j].order_id # order_id
    ELSE Len(orders)

\* Array.prototype.findIndex: first index satisfying the test, 0 when none
\* (JavaScript's -1)
findOrderIndex(orders, order_id) ==
    IF \E i \in 1..Len(orders) : orders[i].order_id = order_id
    THEN CHOOSE i \in 1..Len(orders) :
            /\ orders[i].order_id = order_id
            /\ \A j \in 1..(i - 1) : orders[j].order_id # order_id
    ELSE 0

findPriceIndex(prices, p) ==
    IF \E i \in 1..Len(prices) : prices[i] = p
    THEN CHOOSE i \in 1..Len(prices) :
            /\ prices[i] = p
            /\ \A j \in 1..(i - 1) : prices[j] # p
    ELSE 0

\* Map.delete(key) / Map.set(key, value) on a function with a finite domain
mapDelete(m, k) == [x \in (DOMAIN m) \ {k} |-> m[x]]
mapSet(m, k, v) == [x \in (DOMAIN m) \cup {k} |-> IF x = k THEN v ELSE m[x]]

\* Array.prototype.sort with the comparator of addToOrderBook, as an insertion
\* sort: descending when desc, ascending otherwise; equal prices keep their
\* order.
RECURSIVE insertSorted(_, _, _)
insertSorted(s, x, desc) ==
    IF s = <<>> THEN <<x>>
    ELSE IF (IF desc THEN x > Head(s) ELSE x < Head(s))
         THEN <<x>> \o s
         ELSE <<Head(s)>> \o insertSorted(Tail(s), x, desc)

RECURSIVE sortPrices(_, _)
sortPrices(s, desc) ==
    IF s = <<>> THEN <<>>
    ELSE insertSorted(sortPrices(SubSeq(s, 1, Len(s) - 1), desc), s[Len(s)], desc)

\* ------------------------------------------------------------- data model
createOrderBookSide == [priceLevels |-> [p \in {} |-> 0], prices |-> <<>>]

createOrderBook(pair) ==
    [pair |-> pair, bids |-> createOrderBookSide, asks |-> createOrderBookSide]

createOrder(rawOrder, timestamp) ==
    [type_op |-> rawOrder.type_op, account_id |-> rawOrder.account_id,
     amount |-> rawOrder.amount, order_id |-> rawOrder.order_id,
     pair |-> rawOrder.pair, limit_price |-> rawOrder.limit_price,
     side |-> rawOrder.side, timestamp |-> timestamp]

C30_Mutant_ownSideName(side) == IF side = "BUY" THEN "asks" ELSE "bids"

\* addToOrderBook line 119, removeFromOrderBook line 161:
\* order.side === "BUY" ? orderBook.bids : orderBook.asks
ownSideName(side) == IF side = "BUY" THEN "bids" ELSE "asks"

\* matchOrder line 22: order.side === "BUY" ? orderBook.asks : orderBook.bids
oppositeSideName(side) == IF side = "BUY" THEN "asks" ELSE "bids"

\* ---------------------------------------------------------- MatchingEngine
C9_Mutant_priceIsCompatible(order, currentPrice) == TRUE

C10_Mutant_priceIsCompatible(order, currentPrice) ==
    \/ order.side = "BUY" /\ order.limit_price <= currentPrice
    \/ order.side = "SELL" /\ order.limit_price >= currentPrice

C28_Mutant_priceIsCompatible(order, currentPrice) ==
    \/ order.side = "BUY" /\ order.limit_price > currentPrice
    \/ order.side = "SELL" /\ order.limit_price < currentPrice

\* matchOrder, lines 41-43
priceIsCompatible(order, currentPrice) ==
    \/ order.side = "BUY" /\ order.limit_price >= currentPrice
    \/ order.side = "SELL" /\ order.limit_price <= currentPrice

\* matchAtPriceLevel, line 85: the maker is the head of the level's queue
\* (the index of priceLevel.orders[0], 1-based)
C8_Mutant_nextMaker(orders) == Len(orders)

nextMaker(orders) == 1

\* matchAtPriceLevel, line 87: DecimalValue.min(order.amount, matchOrder.amount)
C3_Mutant_fillAmount(takerAmount, makerAmount) == takerAmount

C13_Mutant_fillAmount(takerAmount, makerAmount) == makerAmount

fillAmount(takerAmount, makerAmount) == Min(takerAmount, makerAmount)

\* matchAtPriceLevel, line 102: price: priceLevel.price
C11_Mutant_tradePrice(order, priceLevel) == order.limit_price

tradePrice(order, priceLevel) == priceLevel.price

\* matchAtPriceLevel, line 95: this.nextTradeId++ leaves the counter one higher
C12_Mutant_tradeIdAfter(id) == id

tradeIdAfter(id) == id + 1

C29_Mutant_makerIsDequeued(makerLeft) == TRUE

\* matchAtPriceLevel, lines 108-111: matchOrder.amount.isZero() ||
\* matchOrder.amount.lt(DecimalValue.ZERO)
makerIsDequeued(makerLeft) == makerLeft = 0 \/ makerLeft < 0

\* One iteration of the while loop of matchAtPriceLevel (lines 85-113).
\* st = [order, priceLevel, trades, nextTradeId]; order is the taker object the
\* loop decrements, priceLevel the level object it mutates in place.
matchAtPriceLevelStep(st, pair, tradeTs) ==
    LET k == nextMaker(st.priceLevel.orders)
        matchOrder == st.priceLevel.orders[k]
        matchAmount == fillAmount(st.order.amount, matchOrder.amount)
        makerLeft == matchOrder.amount - matchAmount
        trade == [trade_id |-> st.nextTradeId,
                  pair |-> pair,
                  maker_order_id |-> matchOrder.order_id,
                  taker_order_id |-> st.order.order_id,
                  maker_account_id |-> matchOrder.account_id,
                  taker_account_id |-> st.order.account_id,
                  amount |-> matchAmount,
                  price |-> tradePrice(st.order, st.priceLevel),
                  timestamp |-> tradeTs]
        orders2 == IF makerIsDequeued(makerLeft)
                   THEN shift(st.priceLevel.orders)
                   ELSE [st.priceLevel.orders EXCEPT ![k].amount = makerLeft]
    IN  [order |-> [st.order EXCEPT !.amount = @ - matchAmount],
         priceLevel |-> [st.priceLevel EXCEPT
                            !.orders = orders2,
                            !.totalVolume = @ - matchAmount],
         trades |-> Append(st.trades, trade),
         nextTradeId |-> tradeIdAfter(st.nextTradeId)]

\* matchAtPriceLevel (lines 77-116): the while loop around the step
RECURSIVE matchAtPriceLevelLoop(_, _, _)
matchAtPriceLevelLoop(st, pair, tradeTs) ==
    IF st.order.amount > 0 /\ Len(st.priceLevel.orders) > 0
    THEN matchAtPriceLevelLoop(matchAtPriceLevelStep(st, pair, tradeTs), pair, tradeTs)
    ELSE st

matchAtPriceLevel(order, priceLevel, pair, nextId, tradeTs) ==
    matchAtPriceLevelLoop([order |-> order, priceLevel |-> priceLevel,
                           trades |-> <<>>, nextTradeId |-> nextId],
                          pair, tradeTs)

C32_Mutant_dropPrice(pricesToMatch) == pricesToMatch

\* matchOrder, lines 52 and 65: pricesToMatch.shift()
dropPrice(pricesToMatch) == shift(pricesToMatch)

C6_Mutant_afterLevelMatched(ms, currentPrice, r) ==
    [ms EXCEPT
        !.remainingOrder = r.order,
        !.oppositeSide.priceLevels = mapSet(@, currentPrice, r.priceLevel),
        !.trades = @ \o r.trades,
        !.nextTradeId = r.nextTradeId]

\* What matchOrder does to the opposite side once a level has been matched
\* (lines 63-66): the emptied level leaves priceLevels, and the price is
\* shifted off pricesToMatch, the copy made at line 33; oppositeSide.prices
\* itself is not touched.
afterLevelMatched(ms, currentPrice, r) ==
    IF Len(r.priceLevel.orders) = 0
    THEN [ms EXCEPT
            !.remainingOrder = r.order,
            !.oppositeSide.priceLevels = mapDelete(@, currentPrice),
            !.pricesToMatch = dropPrice(@),
            !.trades = @ \o r.trades,
            !.nextTradeId = r.nextTradeId]
    ELSE [ms EXCEPT
            !.remainingOrder = r.order,
            !.oppositeSide.priceLevels = mapSet(@, currentPrice, r.priceLevel),
            !.trades = @ \o r.trades,
            !.nextTradeId = r.nextTradeId]

C26_Mutant_levelIsSkipped(order, levels, currentPrice) ==
    \/ currentPrice \notin DOMAIN levels
    \/ Len(levels[currentPrice].orders) = 0
    \/ levels[currentPrice].orders[1].account_id = order.account_id

\* matchOrder, line 51: !priceLevel || priceLevel.orders.length === 0
levelIsSkipped(order, levels, currentPrice) ==
    \/ currentPrice \notin DOMAIN levels
    \/ Len(levels[currentPrice].orders) = 0

\* The while loop of matchOrder (lines 35-67).
\* ms = [remainingOrder, pricesToMatch, oppositeSide, trades, nextTradeId]
RECURSIVE matchOrderLoop(_, _, _, _)
matchOrderLoop(order, ms, pair, tradeTs) ==
    IF ms.remainingOrder.amount > 0 /\ Len(ms.pricesToMatch) > 0
    THEN LET currentPrice == ms.pricesToMatch[1]
             levels == ms.oppositeSide.priceLevels
         IN  IF ~priceIsCompatible(order, currentPrice)
             THEN ms
             ELSE IF levelIsSkipped(order, levels, currentPrice)
             THEN matchOrderLoop(order, [ms EXCEPT !.pricesToMatch = dropPrice(@)],
                                 pair, tradeTs)
             ELSE matchOrderLoop(order,
                     afterLevelMatched(ms, currentPrice,
                         matchAtPriceLevel(ms.remainingOrder, levels[currentPrice],
                                           pair, ms.nextTradeId, tradeTs)),
                     pair, tradeTs)
    ELSE ms

\* matchOrder (lines 14-75).  Returns the trades, the book as the call leaves
\* it, the engine's nextTradeId, and remainingOrder, the shallow copy of the
\* order that the loop decrements (line 29) and that the caller never sees.
\* matchOrder, lines 29-33: the locals as the while loop finds them
matchOrderLocals(order, orderBook, nextId) ==
    [remainingOrder |-> order,
     pricesToMatch |-> orderBook[oppositeSideName(order.side)].prices,
     oppositeSide |-> orderBook[oppositeSideName(order.side)],
     trades |-> <<>>,
     nextTradeId |-> nextId]

\* matchOrder, line 74: what the call leaves once the loop has ended with
\* the locals ms
matchOrderReturn(order, orderBook, ms) ==
    [trades |-> ms.trades,
     orderBook |-> [orderBook EXCEPT ![oppositeSideName(order.side)] = ms.oppositeSide],
     nextTradeId |-> ms.nextTradeId,
     remainingOrder |-> ms.remainingOrder]

matchOrder(order, orderBook, nextId, tradeTs) ==
    IF Len(orderBook[oppositeSideName(order.side)].prices) = 0
    THEN [trades |-> <<>>, orderBook |-> orderBook, nextTradeId |-> nextId,
          remainingOrder |-> order]
    ELSE matchOrderReturn(order, orderBook,
             matchOrderLoop(order, matchOrderLocals(order, orderBook, nextId),
                            orderBook.pair, tradeTs))

C7_Mutant_sortSidePrices(prices, side) == sortPrices(prices, FALSE)

\* addToOrderBook, lines 131-135: bids sort descending, asks ascending
sortSidePrices(prices, side) == sortPrices(prices, side = "BUY")

\* addToOrderBook (lines 118-158)
addToOrderBook(order, orderBook) ==
    LET sd == ownSideName(order.side)
        side == orderBook[sd]
        price == order.limit_price
        isNew == price \notin DOMAIN side.priceLevels
        levels1 == IF isNew
                   THEN mapSet(side.priceLevels, price,
                               [price |-> price, orders |-> <<>>, totalVolume |-> 0])
                   ELSE side.priceLevels
        prices1 == IF isNew
                   THEN sortSidePrices(Append(side.prices, price), order.side)
                   ELSE side.prices
        entry == [order_id |-> order.order_id, account_id |-> order.account_id,
                  amount |-> order.amount, limit_price |-> order.limit_price,
                  timestamp |-> order.timestamp]
        level2 == [levels1[price] EXCEPT
                      !.orders = Append(@, entry),
                      !.totalVolume = @ + order.amount]
    IN  [orderBook EXCEPT ![sd] = [priceLevels |-> mapSet(levels1, price, level2),
                                   prices |-> prices1]]

\* removeFromOrderBook (lines 160-204).  Returns [removed, orderBook, entry];
\* entry is orderToRemove (meaningful only when removed).
removeFromOrderBook(order, orderBook) ==
    LET sd == ownSideName(order.side)
        side == orderBook[sd]
        price == order.limit_price
        notFound == [removed |-> FALSE, orderBook |-> orderBook, amount |-> 0]
    IN  IF price \notin DOMAIN side.priceLevels THEN notFound
        ELSE LET priceLevel == side.priceLevels[price]
                 orderIndex == findOrderIndex(priceLevel.orders, order.order_id)
             IN  IF orderIndex = 0 THEN notFound
                 ELSE LET orderToRemove == priceLevel.orders[orderIndex]
                          level2 == [priceLevel EXCEPT
                                        !.orders = splice(@, orderIndex),
                                        !.totalVolume = @ - orderToRemove.amount]
                          priceIndex == findPriceIndex(side.prices, price)
                          side2 == IF Len(level2.orders) = 0
                                   THEN [priceLevels |-> mapDelete(side.priceLevels, price),
                                         prices |-> IF priceIndex # 0
                                                    THEN splice(side.prices, priceIndex)
                                                    ELSE side.prices]
                                   ELSE [priceLevels |-> mapSet(side.priceLevels, price, level2),
                                         prices |-> side.prices]
                      IN  [removed |-> TRUE,
                           orderBook |-> [orderBook EXCEPT ![sd] = side2],
                           amount |-> orderToRemove.amount]

\* getBestBidPrice / getBestAskPrice (lines 206-212): prices[0], or null (0
\* here: no price is 0) when prices is empty
getBestBidPrice(orderBook) ==
    IF Len(orderBook.bids.prices) > 0 THEN orderBook.bids.prices[1] ELSE 0

getBestAskPrice(orderBook) ==
    IF Len(orderBook.asks.prices) > 0 THEN orderBook.asks.prices[1] ELSE 0

\* getSpread (lines 214-223): the empty sequence stands for null, <<d>> for the
\* DecimalValue d
getSpread(orderBook) ==
    LET bestBid == getBestBidPrice(orderBook)
        bestAsk == getBestAskPrice(orderBook)
    IN  IF bestBid = 0 \/ bestAsk = 0 THEN <<>> ELSE <<bestAsk - bestBid>>

\* ------------------------------------------------------- OrderBookService
\* The amount handleCreateOrder tests and rests (lines 130-131): it reads
\* order.amount of its own order object.  matchOrder decremented the shallow
\* copy remainingOrder (line 29, `{ ...order }`, and line 89 assigning to the
\* copy's field), so the caller's order still carries the command's amount.
amountSeenByCaller(order, m) == order.amount

\* handleCreateOrder (lines 120-145): returns [orderBook, trades, nextTradeId]
C35_Mutant_restAfterMatch(order, m) ==
    [orderBook |-> addToOrderBook([order EXCEPT !.amount = m.remainingOrder.amount],
                                  m.orderBook),
     newTrades |-> m.trades,
     nextTradeId |-> m.nextTradeId]

\* m is what matchOrder returned (line 124); lines 127-132 follow
restAfterMatch(order, m) ==
    LET after == [order EXCEPT !.amount = amountSeenByCaller(order, m)]
    IN  [orderBook |-> IF after.amount > 0
                       THEN addToOrderBook(after, m.orderBook)
                       ELSE m.orderBook,
         newTrades |-> m.trades,
         nextTradeId |-> m.nextTradeId]

handleCreateOrder(order, orderBook, nextId, tradeTs) ==
    restAfterMatch(order, matchOrder(order, orderBook, nextId, tradeTs))

C37_Mutant_ensureOrderBook(books, pair) ==
    IF pair \in DOMAIN books THEN books
    ELSE [q \in DOMAIN books \cup {pair} |-> createOrderBook(q)]

\* processOrder, lines 100-106: the book of the pair, created when missing
ensureOrderBook(books, pair) ==
    IF pair \in DOMAIN books THEN books ELSE mapSet(books, pair, createOrderBook(pair))

C17_Mutant_deleteOutcome(removed) ==
    IF removed THEN "none" ELSE "OrderProcessingError"

\* handleDeleteOrder, lines 157-163: both outcomes of the cancel are logged
\* and the method returns; nothing is thrown
deleteOutcome(removed) == "none"

\* handleDeleteOrder (lines 152-164)
handleDeleteOrder(order, orderBook) ==
    LET d == removeFromOrderBook(order, orderBook)
    IN  [orderBook |-> d.orderBook, removed |-> d.removed, amount |-> d.amount,
         error |-> deleteOutcome(d.removed)]

\* validateOrder line 51: order.pair.includes("/")
SlashlessPairs == {"BTCUSDC"}
includesSlash(pair) == pair \notin SlashlessPairs

C18_Mutant_validateOrder(rawOrder) ==
    /\ rawOrder.absent = {}
    /\ rawOrder.side \in {"BUY", "SELL"}
    /\ rawOrder.amount >= 0
    /\ rawOrder.limit_price > 0
    /\ includesSlash(rawOrder.pair)

\* validateOrder (orderValidator.ts lines 7-57): TRUE when it returns, FALSE
\* when it throws ValidationError.  rawOrder.absent is the set of required
\* fields the element lacks or holds as a falsy value (line 19); type_op is
\* only required to be present.
validateOrder(rawOrder) ==
    /\ rawOrder.absent = {}
    /\ rawOrder.side \in {"BUY", "SELL"}
    /\ rawOrder.amount > 0
    /\ rawOrder.limit_price > 0
    /\ includesSlash(rawOrder.pair)

C27_Mutant_getOrderBook(books, pair) ==
    books[CHOOSE q \in DOMAIN books : TRUE]

\* processOrder, line 106: this.orderBooks.get(order.pair)
getOrderBook(books, pair) == books[pair]

C23_Mutant_pushTrades(log, newTrades) == newTrades \o log

\* handleCreateOrder, line 127: this.trades.push(...newTrades)
pushTrades(log, newTrades) == log \o newTrades

\* processOrder, lines 108-109: what the service holds once handleCreateOrder
\* has returned c
createOutcome(svc, books1, order, c) ==
    [orderBooks |-> mapSet(books1, order.pair, c.orderBook),
     trades |-> pushTrades(svc.trades, c.newTrades),
     nextTradeId |-> c.nextTradeId,
     newTrades |-> c.newTrades,
     removed |-> FALSE, removedAmount |-> 0, error |-> "none"]

C36_Mutant_isCreateOp(order) == TRUE

\* processOrder, line 108: order.type_op === "CREATE"
isCreateOp(order) == order.type_op = "CREATE"

\* processOrder (lines 91-113) on the service state
\* svc = [orderBooks, trades, nextTradeId]
processOrder(svc, order, tradeTs) ==
    LET books1 == ensureOrderBook(svc.orderBooks, order.pair)
        orderBook == getOrderBook(books1, order.pair)
    IN  IF isCreateOp(order)
        THEN createOutcome(svc, books1, order,
                 handleCreateOrder(order, orderBook, svc.nextTradeId, tradeTs))
        ELSE IF order.type_op = "DELETE"
        THEN LET d == handleDeleteOrder(order, orderBook)
             IN  [orderBooks |-> mapSet(books1, order.pair, d.orderBook),
                  trades |-> svc.trades,
                  nextTradeId |-> svc.nextTradeId,
                  newTrades |-> <<>>,
                  removed |-> d.removed, removedAmount |-> d.amount,
                  error |-> d.error]
        ELSE [orderBooks |-> books1,
              trades |-> svc.trades,
              nextTradeId |-> svc.nextTradeId,
              newTrades |-> <<>>,
              removed |-> FALSE, removedAmount |-> 0, error |-> "none"]

\* processRawOrder (lines 39-69) on the service state: validateOrder, then
\* createOrder stamping Date.now(), then processOrder.  A ValidationError is
\* rethrown as it is (lines 50-53) before anything was touched.  The whole
\* call, the trades' Date.now() included, reads the clock as ts: a call is
\* over within one clock millisecond.
processRawOrderOn(svc, rawOrder, ts) ==
    IF ~validateOrder(rawOrder)
    THEN [orderBooks |-> svc.orderBooks, trades |-> svc.trades,
          nextTradeId |-> svc.nextTradeId, newTrades |-> <<>>,
          removed |-> FALSE, removedAmount |-> 0, error |-> "ValidationError"]
    ELSE processOrder(svc, createOrder(rawOrder, ts), ts)

C38_Mutant_leavesLoop(error) == FALSE

\* processRawOrders, lines 78-80: an exception thrown by processRawOrder is
\* not caught in the for loop and ends it
leavesLoop(error) == error # "none"

\* no call of matchOrder is in progress
notMatching == [phase |-> "idle", frames |-> <<>>]

\* What one call leaves behind: r is the outcome of processRawOrderOn on the
\* current service.  An exception leaves the loop of processRawOrders
\* (lines 78-80), so no later command is processed.
recordOutcome(rawOrder, r) ==
    /\ processed' = Append(processed, rawOrder)
    /\ prevBooks' = orderBooks
    /\ prevTrades' = trades
    /\ prevNextTradeId' = nextTradeId
    /\ now' = now
    /\ orderBooks' = r.orderBooks
    /\ trades' = r.trades
    /\ nextTradeId' = r.nextTradeId
    /\ lastTrades' = r.newTrades
    /\ lastRemoved' = r.removed
    /\ cancelledVolume' = cancelledVolume + r.removedAmount
    /\ cancelledAt' = IF r.removed
                      THEN cancelledAt \cup {[order_id |-> rawOrder.order_id,
                                              tradesThen |-> Len(r.trades)]}
                      ELSE cancelledAt
    /\ matching' = notMatching
    /\ lastError' = r.error
    /\ halted' = leavesLoop(r.error)

\* One iteration of the loop of processRawOrders (lines 78-80): a call of
\* processRawOrder.
processRawOrder(rawOrder) ==
    /\ ~halted
    /\ recordOutcome(rawOrder,
                     processRawOrderOn([orderBooks |-> orderBooks, trades |-> trades,
                                        nextTradeId |-> nextTradeId], rawOrder, now))

\* ------------------------------------------------------------ the outputs
\* DecimalValue.toString(): the decimal string of the value
decimalToString(d) == ToString(d)

\* serializeOrderBookEntry (models/orderbook.ts, lines 334-344)
serializeOrderBookEntry(entry) ==
    [order_id |-> entry.order_id, account_id |-> entry.account_id,
     amount |-> decimalToString(entry.amount),
     limit_price |-> decimalToString(entry.limit_price),
     timestamp |-> entry.timestamp]

serializeEntries(orders) ==
    [i \in 1..Len(orders) |-> serializeOrderBookEntry(orders[i])]

\* serializeOrderBook, lines 358-365 and 368-375: prices.forEach, and for a
\* price with a level, the entries of the level in queue order
RECURSIVE serializeSide(_, _)
serializeSide(side, prices) ==
    IF prices = <<>> THEN <<>>
    ELSE (IF Head(prices) \in DOMAIN side.priceLevels
          THEN serializeEntries(side.priceLevels[Head(prices)].orders)
          ELSE <<>>)
         \o serializeSide(side, Tail(prices))

\* serializeOrderBook (lines 348-383): the value stored under orderBook.pair
serializeOrderBook(orderBook) ==
    [bids |-> serializeSide(orderBook.bids, orderBook.bids.prices),
     asks |-> serializeSide(orderBook.asks, orderBook.asks.prices)]

\* getSerializedOrderBooks (orderBookService.ts, lines 186-195)
getSerializedOrderBooks(books) ==
    [pair \in DOMAIN books |-> serializeOrderBook(books[pair])]

\* serializeTrade (models/trade.ts)
serializeTrade(trade) ==
    [trade EXCEPT !.amount = decimalToString(@), !.price = decimalToString(@)]

\* getSerializedTrades (orderBookService.ts, lines 201-203)
getSerializedTrades(ts) == [i \in 1..Len(ts) |-> serializeTrade(ts[i])]

\* a Service right after its constructor (orderBookService.ts lines 26-33,
\* matchingEngine.ts line 12)
freshService ==
    [orderBooks |-> [p \in {} |-> 0], trades |-> <<>>, nextTradeId |-> 1]

\* processRawOrders (lines 75-85) on a service, every Date.now() of the batch
\* reading ts: the service the batch leaves behind.  An exception ends the
\* loop.
RECURSIVE processRawOrdersOn(_, _, _)
processRawOrdersOn(svc, rawOrders, ts) ==
    IF rawOrders = <<>> THEN svc
    ELSE LET r == processRawOrderOn(svc, Head(rawOrders), ts)
             svc2 == [orderBooks |-> r.orderBooks, trades |-> r.trades,
                      nextTradeId |-> r.nextTradeId]
         IN  IF leavesLoop(r.error) THEN svc2
             ELSE processRawOrdersOn(svc2, Tail(rawOrders), ts)

\* --------------------------------------------------------------- the inputs
createsSoFar == Cardinality({i \in 1..Len(processed) : processed[i].type_op = "CREATE"})

\* order_id is unique per CREATE: the n-th CREATE carries order_id n
CreateCommands ==
    [type_op : {"CREATE"}, account_id : Accounts, amount : Amounts,
     order_id : {createsSoFar + 1}, pair : Pairs, limit_price : Prices,
     side : Sides, absent : {{}}]

\* a DELETE names an order created so far or one that never was; its amount
\* field must be present and positive but is not read by the cancel
DeleteCommands ==
    [type_op : {"DELETE"}, account_id : Accounts, amount : {1},
     order_id : 1..(createsSoFar + 1), pair : Pairs, limit_price : Prices,
     side : Sides, absent : {{}}]

Init ==
    /\ orderBooks = [p \in {} |-> 0]
    /\ trades = <<>>
    /\ nextTradeId = 1
    /\ now = 0
    /\ processed = <<>>
    /\ lastTrades = <<>>
    /\ lastRemoved = FALSE
    /\ prevBooks = [p \in {} |-> 0]
    /\ prevTrades = <<>>
    /\ prevNextTradeId = 1
    /\ cancelledVolume = 0
    /\ cancelledAt = {}
    /\ matching = notMatching
    /\ lastError = "none"
    /\ halted = FALSE

ProcessCreate ==
    /\ Len(processed) < MaxCmds
    /\ \E rawOrder \in CreateCommands : processRawOrder(rawOrder)

ProcessDelete ==
    /\ Len(processed) < MaxCmds
    /\ \E rawOrder \in DeleteCommands : processRawOrder(rawOrder)

\* the wall clock advances between two calls
Tick ==
    /\ now < MaxClock
    /\ now' = now + 1
    /\ UNCHANGED <<orderBooks, trades, nextTradeId, processed, lastTrades,
                   lastRemoved, prevBooks, prevTrades, prevNextTradeId,
                   cancelledVolume, cancelledAt, matching, lastError, halted>>

\* Spec: the commands are processed within one clock millisecond.
Next == ProcessCreate \/ ProcessDelete

Spec == Init /\ [][Next]_vars

\* ---- narrow commands: one price, one amount, to reach longer histories
NarrowCreateCommands == {c \in CreateCommands : c.limit_price = 1 /\ c.amount = 1}

NarrowDeleteCommands == {c \in DeleteCommands : c.limit_price = 1}

NarrowCreate ==
    /\ Len(processed) < MaxCmds
    /\ \E rawOrder \in NarrowCreateCommands : processRawOrder(rawOrder)

NarrowDelete ==
    /\ Len(processed) < MaxCmds
    /\ \E rawOrder \in NarrowDeleteCommands : processRawOrder(rawOrder)

\* SpecClock: the clock may advance between any two commands.
NextClock == NarrowCreate \/ NarrowDelete \/ Tick

SpecClock == Init /\ [][NextClock]_vars

\* SpecDeep: one more command, at one price.
DeepCreateCommands == {c \in CreateCommands : c.limit_price = 1}

DeepCreate ==
    /\ Len(processed) < MaxCmds + 1
    /\ \E rawOrder \in DeepCreateCommands : processRawOrder(rawOrder)

DeepDelete ==
    /\ Len(processed) < MaxCmds + 1
    /\ \E rawOrder \in NarrowDeleteCommands : processRawOrder(rawOrder)

NextDeep == DeepCreate \/ DeepDelete

SpecDeep == Init /\ [][NextDeep]_vars

\* ---- commands that validateOrder rejects, and commands of another type_op
RequiredFields ==
    {"type_op", "account_id", "amount", "order_id", "pair", "limit_price", "side"}

WellFormedCommands ==
    [type_op : {"CREATE", "DELETE"}, account_id : Accounts, amount : {1},
     order_id : {createsSoFar + 1}, pair : Pairs, limit_price : {1},
     side : {"BUY"}, absent : {{}}]

RejectedCommands ==
    {[c EXCEPT !.absent = {f}] : c \in WellFormedCommands, f \in RequiredFields}
    \cup {[c EXCEPT !.side = "HOLD"] : c \in WellFormedCommands}
    \cup {[c EXCEPT !.amount = a] : c \in WellFormedCommands, a \in {0, -1}}
    \cup {[c EXCEPT !.limit_price = a] : c \in WellFormedCommands, a \in {0, -1}}
    \cup {[c EXCEPT !.pair = q] : c \in WellFormedCommands, q \in SlashlessPairs}

OtherOpCommands ==
    {[c EXCEPT !.type_op = "UPDATE"] : c \in WellFormedCommands}

ProcessRejected ==
    /\ Len(processed) < MaxCmds
    /\ \E rawOrder \in RejectedCommands : processRawOrder(rawOrder)

ProcessOtherOp ==
    /\ Len(processed) < MaxCmds
    /\ \E rawOrder \in OtherOpCommands : processRawOrder(rawOrder)

\* SpecRaw: the batch may also hold commands the validator rejects and
\* commands whose type_op is neither CREATE nor DELETE.
NextRaw == ProcessCreate \/ ProcessDelete \/ ProcessRejected \/ ProcessOtherOp

SpecRaw == Init /\ [][NextRaw]_vars

\* ---- two pairs and two accounts, at one price and one amount, one more
\* command
MultiPairs == {"BTC/USDC", "ETH/USDC"}
MultiAccounts == {"a1", "a2"}

MultiCreateCommands ==
    [type_op : {"CREATE"}, account_id : MultiAccounts, amount : {1},
     order_id : {createsSoFar + 1}, pair : MultiPairs, limit_price : {1},
     side : Sides, absent : {{}}]

MultiDeleteCommands ==
    [type_op : {"DELETE"}, account_id : {"a1"}, amount : {1},
     order_id : 1..(createsSoFar + 1), pair : MultiPairs, limit_price : {1},
     side : Sides, absent : {{}}]

MultiCreate ==
    /\ Len(processed) < MaxCmds + 1
    /\ \E rawOrder \in MultiCreateCommands : processRawOrder(rawOrder)

MultiDelete ==
    /\ Len(processed) < MaxCmds + 1
    /\ \E rawOrder \in MultiDeleteCommands : processRawOrder(rawOrder)

NextMulti == MultiCreate \/ MultiDelete

SpecMulti == Init /\ [][NextMulti]_vars

\* SpecSteps: the loops of matchOrder and matchAtPriceLevel followed one
\* iteration at a time.  matching.frames holds the one call in progress:
\* the command, the order made of it, the books after getOrderBook, the
\* locals ms of matchOrder, and in inner the locals of matchAtPriceLevel.
frame == matching.frames[1]

frameBook == getOrderBook(frame.books1, frame.order.pair)

\* the commands of SpecSteps: a CREATE of the smallest or the largest amount
\* at the lowest or the highest price, and a DELETE that names an order as
\* it was created
StepsCreateCommands ==
    {c \in CreateCommands : c.amount \in {1, MaxAmount} /\ c.limit_price \in {1, MaxPrice}}

StepsDeleteCommands ==
    {d \in DeleteCommands :
        \E i \in 1..Len(processed) :
            /\ processed[i].type_op = "CREATE"
            /\ processed[i].order_id = d.order_id
            /\ processed[i].side = d.side
            /\ processed[i].limit_price = d.limit_price}

\* processRawOrder up to the entry of matchOrder (orderBookService.ts 39-66,
\* 91-108, 120-124; matchingEngine.ts 14-33)
BeginCreate ==
    /\ ~halted
    /\ matching.phase = "idle"
    /\ Len(processed) < MaxCmds
    /\ \E rawOrder \in StepsCreateCommands :
          LET order == createOrder(rawOrder, now)
              books1 == ensureOrderBook(orderBooks, order.pair)
              orderBook == getOrderBook(books1, order.pair)
          IN  /\ validateOrder(rawOrder)
              /\ matching' =
                    [phase |-> IF Len(orderBook[oppositeSideName(order.side)].prices) = 0
                               THEN "finish" ELSE "outer",
                     frames |-> <<[rawOrder |-> rawOrder, order |-> order,
                                   books1 |-> books1,
                                   ms |-> matchOrderLocals(order, orderBook, nextTradeId),
                                   inner |-> <<>>]>>]
    /\ UNCHANGED <<orderBooks, trades, nextTradeId, now, processed, lastTrades,
                   lastRemoved, prevBooks, prevTrades, prevNextTradeId,
                   cancelledVolume, cancelledAt, lastError, halted>>

\* one evaluation of the while condition of matchOrder and of the body up
\* to the call of matchAtPriceLevel (lines 35-57)
MatchOuterStep ==
    /\ matching.phase = "outer"
    /\ LET ms == frame.ms
           currentPrice == ms.pricesToMatch[1]
           levels == ms.oppositeSide.priceLevels
       IN  matching' =
             IF ~(ms.remainingOrder.amount > 0 /\ Len(ms.pricesToMatch) > 0)
             THEN [matching EXCEPT !.phase = "finish"]
             ELSE IF ~priceIsCompatible(frame.order, currentPrice)
             THEN [matching EXCEPT !.phase = "finish"]
             ELSE IF levelIsSkipped(frame.order, levels, currentPrice)
             THEN [matching EXCEPT !.frames[1].ms.pricesToMatch = dropPrice(@)]
             ELSE [matching EXCEPT
                      !.phase = "inner",
                      !.frames[1].inner = <<[order |-> ms.remainingOrder,
                                             priceLevel |-> levels[currentPrice],
                                             trades |-> <<>>,
                                             nextTradeId |-> ms.nextTradeId]>>]
    /\ UNCHANGED <<orderBooks, trades, nextTradeId, now, processed, lastTrades,
                   lastRemoved, prevBooks, prevTrades, prevNextTradeId,
                   cancelledVolume, cancelledAt, lastError, halted>>

\* one iteration of the while loop of matchAtPriceLevel (lines 84-114); when
\* its condition is then false the call returns and matchOrder goes on with
\* lines 58-66
MatchInnerStep ==
    /\ matching.phase = "inner"
    /\ LET st == matchAtPriceLevelStep(frame.inner[1], frame.order.pair, now)
       IN  matching' =
             IF st.order.amount > 0 /\ Len(st.priceLevel.orders) > 0
             THEN [matching EXCEPT !.frames[1].inner = <<st>>]
             ELSE [matching EXCEPT
                      !.phase = "outer",
                      !.frames[1].ms = afterLevelMatched(@, @.pricesToMatch[1], st),
                      !.frames[1].inner = <<>>]
    /\ UNCHANGED <<orderBooks, trades, nextTradeId, now, processed, lastTrades,
                   lastRemoved, prevBooks, prevTrades, prevNextTradeId,
                   cancelledVolume, cancelledAt, lastError, halted>>

\* matchOrder has returned: the rest of handleCreateOrder and of processOrder
FinishCreate ==
    /\ matching.phase = "finish"
    /\ recordOutcome(frame.rawOrder,
           createOutcome([orderBooks |-> orderBooks, trades |-> trades,
                          nextTradeId |-> nextTradeId],
                         frame.books1, frame.order,
                         restAfterMatch(frame.order,
                             matchOrderReturn(frame.order, frameBook, frame.ms))))

\* a DELETE runs no loop: the whole call is one step
StepDelete ==
    /\ matching.phase = "idle"
    /\ Len(processed) < MaxCmds
    /\ \E rawOrder \in StepsDeleteCommands : processRawOrder(rawOrder)

NextSteps ==
    BeginCreate \/ MatchOuterStep \/ MatchInnerStep \/ FinishCreate \/ StepDelete

\* a call that has started keeps running: the engine is single-threaded and
\* synchronous, nothing suspends it between two iterations
SpecSteps ==
    /\ Init
    /\ [][NextSteps]_vars
    /\ WF_vars(MatchOuterStep)
    /\ WF_vars(MatchInnerStep)
    /\ WF_vars(FinishCreate)

\* ------------------------------------------------- what the claims speak of
lastCommand == processed[Len(processed)]

afterCreate ==
    Len(processed) > 0 /\ lastCommand.type_op = "CREATE" /\ lastError = "none"

afterDelete ==
    Len(processed) > 0 /\ lastCommand.type_op = "DELETE" /\ lastError = "none"

\* the book of a pair before the last command (an empty book when the command
\* was the first to name the pair)
bookBefore(pair) == ensureOrderBook(prevBooks, pair)[pair]

\* the prices at which an entry rests on a side
restingPrices(side) ==
    {p \in DOMAIN side.priceLevels : Len(side.priceLevels[p].orders) > 0}

\* the entries resting on a side
restingEntries(side) ==
    UNION {Range(side.priceLevels[p].orders) : p \in DOMAIN side.priceLevels}

RECURSIVE sumLevels(_)
sumLevels(levels) ==
    IF DOMAIN levels = {} THEN 0
    ELSE LET k == CHOOSE k \in DOMAIN levels : TRUE
         IN  SumAmounts(levels[k].orders) + sumLevels(mapDelete(levels, k))

RECURSIVE sumBooks(_)
sumBooks(books) ==
    IF DOMAIN books = {} THEN 0
    ELSE LET k == CHOOSE k \in DOMAIN books : TRUE
         IN  sumLevels(books[k].bids.priceLevels)
             + sumLevels(books[k].asks.priceLevels)
             + sumBooks(mapDelete(books, k))

restingVolume == sumBooks(orderBooks)

RECURSIVE createdVolume(_)
createdVolume(cmds) ==
    IF cmds = <<>> THEN 0
    ELSE (IF Head(cmds).type_op = "CREATE" THEN Head(cmds).amount ELSE 0)
         + createdVolume(Tail(cmds))

\* the amount resting under an order_id on a side
RECURSIVE sumOfId(_, _)
sumOfId(orders, id) ==
    IF orders = <<>> THEN 0
    ELSE (IF Head(orders).order_id = id THEN Head(orders).amount ELSE 0)
         + sumOfId(Tail(orders), id)

RECURSIVE restedUnder(_, _)
restedUnder(levels, id) ==
    IF DOMAIN levels = {} THEN 0
    ELSE LET k == CHOOSE k \in DOMAIN levels : TRUE
         IN  sumOfId(levels[k].orders, id) + restedUnder(mapDelete(levels, k), id)

\* what the first n trades of a trade list filled of the maker `id`
RECURSIVE filledBefore(_, _, _)
filledBefore(ts, n, id) ==
    IF n = 0 THEN 0
    ELSE (IF ts[n].maker_order_id = id THEN ts[n].amount ELSE 0)
         + filledBefore(ts, n - 1, id)

\* the side a command's order belongs to, and the side it trades against
sideOfOrder(book, side) == IF side = "BUY" THEN book.bids ELSE book.asks
sideAgainst(book, side) == IF side = "BUY" THEN book.asks ELSE book.bids

\* price p is strictly better than q for a taker of the given side
strictlyBetter(takerSide, p, q) ==
    IF takerSide = "BUY" THEN p < q ELSE p > q

\* ------------------------------------------------------------------ claims

\* C1: after every process(command), for every pair, whenever both sides hold
\* a resting entry the highest resting bid price is strictly below the lowest
\* resting ask price (the book is not crossed).
C1_NoCrossedBook ==
    \A pair \in DOMAIN orderBooks :
        \A b \in restingPrices(orderBooks[pair].bids) :
            \A a \in restingPrices(orderBooks[pair].asks) : b < a

\* C2: after a CREATE, the amount rested under its order_id on the taker's own
\* side is the command's amount minus the sum of the amounts of the trades its
\* match produced; a CREATE consumed in full rests nothing.
C2_RestedAmountIsResidual ==
    afterCreate =>
        LET cmd == lastCommand
            own == sideOfOrder(orderBooks[cmd.pair], cmd.side)
        IN  restedUnder(own.priceLevels, cmd.order_id)
                = cmd.amount - SumAmounts(lastTrades)

C4_PricesMatchLevels ==
    \A pair \in DOMAIN orderBooks :
        \A sd \in {"bids", "asks"} :
            Range(orderBooks[pair][sd].prices)
                = DOMAIN orderBooks[pair][sd].priceLevels

\* C5: on each side `prices` is strictly ordered without duplicates: bids
\* strictly decreasing, asks strictly increasing.
C5_PricesStrictlySorted ==
    \A pair \in DOMAIN orderBooks :
        LET bp == orderBooks[pair].bids.prices
            ap == orderBooks[pair].asks.prices
        IN  /\ \A i \in 1..(Len(bp) - 1) : bp[i] > bp[i + 1]
            /\ \A i \in 1..(Len(ap) - 1) : ap[i] < ap[i + 1]

C7_PricePriority ==
    afterCreate =>
        LET cmd == lastCommand
            opp == sideAgainst(bookBefore(cmd.pair), cmd.side)
        IN  /\ \A i \in 1..Len(lastTrades) : \A j \in 1..Len(lastTrades) :
                  i < j => ~strictlyBetter(cmd.side, lastTrades[j].price,
                                           lastTrades[i].price)
            /\ \A i \in 1..Len(lastTrades) : \A e \in restingEntries(opp) :
                  strictlyBetter(cmd.side, e.limit_price, lastTrades[i].price)
                      => filledBefore(lastTrades, i - 1, e.order_id) = e.amount

\* C7 witness: one match call traded at two different prices.
C7_Witness ==
    /\ afterCreate
    /\ Len(lastTrades) >= 2
    /\ lastTrades[1].price # lastTrades[2].price

\* C8: within a price level makers are filled in insertion order: when a maker
\* is filled, every entry queued before it at that price was already filled in
\* full by the earlier trades of the call.
C8_TimePriority ==
    afterCreate =>
        LET cmd == lastCommand
            opp == sideAgainst(bookBefore(cmd.pair), cmd.side)
        IN  \A i \in 1..Len(lastTrades) :
                LET t == lastTrades[i]
                IN  /\ t.price \in DOMAIN opp.priceLevels
                    /\ LET q == opp.priceLevels[t.price].orders
                       IN  \E k \in 1..Len(q) :
                              /\ q[k].order_id = t.maker_order_id
                              /\ \A j \in 1..(k - 1) :
                                    filledBefore(lastTrades, i - 1, q[j].order_id)
                                        = q[j].amount

\* C8 witness: one match call filled two makers of the same level.
C8_Witness ==
    /\ afterCreate
    /\ Len(lastTrades) >= 2
    /\ lastTrades[1].price = lastTrades[2].price
    /\ lastTrades[1].maker_order_id # lastTrades[2].maker_order_id

\* the CREATE command that introduced an order_id (order_ids are unique per
\* CREATE)
createOf(id) ==
    processed[CHOOSE i \in 1..Len(processed) :
                 processed[i].type_op = "CREATE" /\ processed[i].order_id = id]

\* the best price resting on a side, for a taker of the given side
isBestAgainst(takerSide, side, p) ==
    /\ p \in restingPrices(side)
    /\ \A q \in restingPrices(side) : ~strictlyBetter(takerSide, q, p)

\* C9: every trade respects the taker's limit, equality allowed: the price is
\* at most a BUY taker's limit_price and at least a SELL taker's; and a taker
\* whose limit equals the best opposite price does trade, at that price.
C9_TakerLimitRespected ==
    /\ \A i \in 1..Len(trades) :
          LET taker == createOf(trades[i].taker_order_id)
          IN  IF taker.side = "BUY"
              THEN trades[i].price <= taker.limit_price
              ELSE trades[i].price >= taker.limit_price
    /\ afterCreate =>
          LET cmd == lastCommand
              opp == sideAgainst(bookBefore(cmd.pair), cmd.side)
          IN  isBestAgainst(cmd.side, opp, cmd.limit_price)
                  => /\ lastTrades # <<>>
                     /\ lastTrades[1].price = cmd.limit_price

\* C9 witness: a taker whose limit equals the best opposite price traded at it.
C9_Witness ==
    /\ afterCreate
    /\ isBestAgainst(lastCommand.side,
                     sideAgainst(bookBefore(lastCommand.pair), lastCommand.side),
                     lastCommand.limit_price)
    /\ lastTrades # <<>>
    /\ lastTrades[1].price = lastCommand.limit_price

\* the limit of a command is strictly worse than every price resting on the
\* side it would trade against: a BUY limit below every ask, a SELL limit
\* above every bid
strictlyWorseThanAll(cmd, opp) ==
    \A p \in restingPrices(opp) :
        IF cmd.side = "BUY" THEN cmd.limit_price < p ELSE cmd.limit_price > p

\* C10: a CREATE whose limit_price is strictly worse than every resting
\* opposite price produces zero trades, leaves the opposite side unchanged and
\* rests on its own side, at the tail of the level at its limit, with its full
\* amount.
C10_NonMarketableRests ==
    afterCreate =>
        LET cmd == lastCommand
            oppBefore == sideAgainst(bookBefore(cmd.pair), cmd.side)
            ownBefore == sideOfOrder(bookBefore(cmd.pair), cmd.side)
            oppAfter == sideAgainst(orderBooks[cmd.pair], cmd.side)
            ownAfter == sideOfOrder(orderBooks[cmd.pair], cmd.side)
        IN  strictlyWorseThanAll(cmd, oppBefore) =>
              /\ lastTrades = <<>>
              /\ oppAfter = oppBefore
              /\ cmd.limit_price \in DOMAIN ownAfter.priceLevels
              /\ LET q == ownAfter.priceLevels[cmd.limit_price].orders
                 IN  /\ Len(q) > 0
                     /\ q[Len(q)].order_id = cmd.order_id
                     /\ q[Len(q)].amount = cmd.amount
                     /\ restedUnder(ownAfter.priceLevels, cmd.order_id) = cmd.amount
                     /\ restedUnder(ownBefore.priceLevels, cmd.order_id) = 0

\* C10 witness: entries rested on the opposite side, all at prices strictly
\* better than the command's limit, and the command rested without a trade.
C10_Witness ==
    /\ afterCreate
    /\ LET cmd == lastCommand
           oppBefore == sideAgainst(bookBefore(cmd.pair), cmd.side)
       IN  /\ restingPrices(oppBefore) # {}
           /\ strictlyWorseThanAll(cmd, oppBefore)
           /\ lastTrades = <<>>
           /\ restedUnder(sideOfOrder(orderBooks[cmd.pair], cmd.side).priceLevels,
                          cmd.order_id) = cmd.amount

\* the entry resting under an order_id on a side
entryOf(side, id) == CHOOSE e \in restingEntries(side) : e.order_id = id

\* C11: every trade's price is the limit_price of its maker, the resting entry
\* it was matched against, as it stood when the match began (and so as its
\* CREATE gave it), not the taker's limit.
C11_TradeAtMakerPrice ==
    /\ \A i \in 1..Len(trades) :
          trades[i].price = createOf(trades[i].maker_order_id).limit_price
    /\ afterCreate =>
          LET opp == sideAgainst(bookBefore(lastCommand.pair), lastCommand.side)
          IN  \A i \in 1..Len(lastTrades) :
                /\ \E e \in restingEntries(opp) :
                      e.order_id = lastTrades[i].maker_order_id
                /\ lastTrades[i].price
                      = entryOf(opp, lastTrades[i].maker_order_id).limit_price

\* C11 witness: a taker traded with a maker whose limit differs from its own.
C11_Witness ==
    /\ afterCreate
    /\ lastTrades # <<>>
    /\ lastTrades[1].price # lastCommand.limit_price
    /\ lastTrades[1].price = createOf(lastTrades[1].maker_order_id).limit_price

\* what the first n trades of a trade list took off the taker
RECURSIVE takenBefore(_, _)
takenBefore(ts, n) ==
    IF n = 0 THEN 0 ELSE ts[n].amount + takenBefore(ts, n - 1)

\* C13: each trade's amount is the minimum of the taker's remaining amount and
\* the maker's remaining amount at the moment of the fill, and is strictly
\* positive.
C13_FillIsMinAndPositive ==
    /\ \A i \in 1..Len(trades) : trades[i].amount > 0
    /\ afterCreate =>
          LET cmd == lastCommand
              opp == sideAgainst(bookBefore(cmd.pair), cmd.side)
          IN  \A i \in 1..Len(lastTrades) :
                LET t == lastTrades[i]
                    takerLeft == cmd.amount - takenBefore(lastTrades, i - 1)
                IN  /\ \E e \in restingEntries(opp) : e.order_id = t.maker_order_id
                    /\ LET makerLeft ==
                              entryOf(opp, t.maker_order_id).amount
                                  - filledBefore(lastTrades, i - 1, t.maker_order_id)
                       IN  /\ t.amount = (IF takerLeft <= makerLeft
                                          THEN takerLeft ELSE makerLeft)
                           /\ t.amount > 0

\* C13 witness: one call made a fill bounded by the maker (the taker had more
\* left) and then a fill bounded by the taker (the maker had more left).
C13_Witness ==
    /\ afterCreate
    /\ Len(lastTrades) = 2
    /\ lastTrades[1].amount < lastCommand.amount
    /\ LET opp == sideAgainst(bookBefore(lastCommand.pair), lastCommand.side)
       IN  lastTrades[2].amount < entryOf(opp, lastTrades[2].maker_order_id).amount

\* C12: the trade_id values of the trade log, read in log order, are exactly
\* 1, 2, 3, ...: no gap and no repeat, whatever the commands and the pairs.
C12_TradeIdsSequential ==
    \A i \in 1..Len(trades) : trades[i].trade_id = i

\* two trades of different pairs in the log
C12_Witness ==
    /\ Len(trades) >= 2
    /\ \E i, j \in 1..Len(trades) : trades[i].pair # trades[j].pair

\* the best price at which an entry rests on the side a taker trades against
bestRestingPrice(takerSide, side) ==
    CHOOSE p \in restingPrices(side) :
        \A q \in restingPrices(side) : ~strictlyBetter(takerSide, q, p)

\* the taker's limit admits a trade at price p
limitAdmits(cmd, p) ==
    IF cmd.side = "BUY" THEN cmd.limit_price >= p ELSE cmd.limit_price <= p

\* C14: a CREATE whose amount equals the amount of the single best opposite
\* maker, at a compatible price, produces exactly one trade for that amount;
\* if that maker was the only entry at its price, afterwards neither the level
\* nor its price remains on the opposite side; the taker leaves nothing
\* resting.
C14_ExactFill ==
    afterCreate =>
        LET cmd == lastCommand
            oppBefore == sideAgainst(bookBefore(cmd.pair), cmd.side)
            oppAfter == sideAgainst(orderBooks[cmd.pair], cmd.side)
            ownAfter == sideOfOrder(orderBooks[cmd.pair], cmd.side)
        IN  restingPrices(oppBefore) # {} =>
              LET p == bestRestingPrice(cmd.side, oppBefore)
                  level == oppBefore.priceLevels[p]
              IN  (limitAdmits(cmd, p) /\ level.orders[1].amount = cmd.amount) =>
                    /\ Len(lastTrades) = 1
                    /\ lastTrades[1].amount = cmd.amount
                    /\ lastTrades[1].maker_order_id = level.orders[1].order_id
                    /\ Len(level.orders) = 1 =>
                          /\ p \notin DOMAIN oppAfter.priceLevels
                          /\ p \notin Range(oppAfter.prices)
                    /\ restedUnder(ownAfter.priceLevels, cmd.order_id) = 0

\* the last command names, by side and limit_price, a level that held an
\* entry of its order_id before the command
namesRestingEntry(cmd) ==
    LET ownBefore == sideOfOrder(bookBefore(cmd.pair), cmd.side)
    IN  /\ cmd.limit_price \in DOMAIN ownBefore.priceLevels
        /\ \E e \in Range(ownBefore.priceLevels[cmd.limit_price].orders) :
              e.order_id = cmd.order_id

\* a queue without the entries of an order_id
withoutId(orders, id) ==
    LET keep(e) == e.order_id # id
    IN  SelectSeq(orders, keep)

\* C15: in any reachable state of the book, a DELETE whose side, limit_price
\* and order_id identify a resting entry returns true, removes exactly that
\* entry, decrements the level's totalVolume by the entry's amount, keeps the
\* relative order of the other entries of the level, and, when the level
\* becomes empty, removes the level and every occurrence of its price from
\* the side's prices.
C15_CancelRemovesEntry ==
    (afterDelete /\ namesRestingEntry(lastCommand)) =>
        LET cmd == lastCommand
            ownBefore == sideOfOrder(bookBefore(cmd.pair), cmd.side)
            ownAfter == sideOfOrder(orderBooks[cmd.pair], cmd.side)
            level == ownBefore.priceLevels[cmd.limit_price]
            rest == withoutId(level.orders, cmd.order_id)
        IN  /\ lastRemoved
            /\ Len(rest) = Len(level.orders) - 1
            /\ IF rest = <<>>
               THEN /\ cmd.limit_price \notin DOMAIN ownAfter.priceLevels
                    /\ cmd.limit_price \notin Range(ownAfter.prices)
               ELSE /\ cmd.limit_price \in DOMAIN ownAfter.priceLevels
                    /\ ownAfter.priceLevels[cmd.limit_price].orders = rest
                    /\ ownAfter.priceLevels[cmd.limit_price].totalVolume
                          = level.totalVolume
                            - (SumAmounts(level.orders) - SumAmounts(rest))

\* C16: a DELETE for which no resting entry with that order_id exists at the
\* level named by the command's side and limit_price returns false and leaves
\* the book unchanged, also when the order does rest in the book, on the other
\* side or at another price.
C16_CancelMissReturnsFalse ==
    (afterDelete /\ ~namesRestingEntry(lastCommand)) =>
        /\ ~lastRemoved
        /\ orderBooks[lastCommand.pair] = bookBefore(lastCommand.pair)
        /\ \A q \in DOMAIN prevBooks : orderBooks[q] = prevBooks[q]

\* C16 witness: the order rests in the book, on the other side or at another
\* price than the DELETE names, next to other entries; the cancel found
\* nothing.
C16_Witness ==
    /\ afterDelete
    /\ ~namesRestingEntry(lastCommand)
    /\ ~lastRemoved
    /\ LET b == bookBefore(lastCommand.pair)
       IN  /\ \E e \in restingEntries(b.bids) \cup restingEntries(b.asks) :
                 e.order_id = lastCommand.order_id
           /\ restingEntries(sideOfOrder(b, lastCommand.side)) # {}

\* the k-th command is a DELETE of an order_id no earlier CREATE introduced
cancelOfUnknownId(k) ==
    /\ processed[k].type_op = "DELETE"
    /\ processed[k].order_id
          > Cardinality({i \in 1..(k - 1) : processed[i].type_op = "CREATE"})

\* C17: a failed cancel is not an error: process(DELETE) completes normally,
\* nothing is thrown, and processRawOrders goes on with the later commands of
\* the batch.
C17_FailedCancelIsNoError ==
    (/\ Len(processed) > 0
     /\ lastCommand.type_op = "DELETE"
     /\ lastError # "ValidationError"
     /\ ~lastRemoved) =>
        /\ lastError = "none"
        /\ ~halted

\* C17 witness: a cancel that found nothing, and a later CREATE of the batch
\* processed after it.
C17_Witness ==
    /\ afterCreate
    /\ \E k \in 1..(Len(processed) - 1) : cancelOfUnknownId(k)

\* a command the validator has to reject: a required field missing, a side
\* other than BUY and SELL, an amount or a limit_price that is not strictly
\* positive, a pair without '/'
mustBeRejected(cmd) ==
    \/ cmd.absent # {}
    \/ cmd.side \notin {"BUY", "SELL"}
    \/ cmd.amount <= 0
    \/ cmd.limit_price <= 0
    \/ cmd.pair \in SlashlessPairs

\* C18: a command rejected by validation raises ValidationError, unchanged, to
\* the caller, and leaves the set of books, every book's content, the trade log
\* and the next trade id exactly as they were before the call.
C18_RejectedChangesNothing ==
    /\ (Len(processed) > 0 /\ mustBeRejected(lastCommand)) =>
          lastError = "ValidationError"
    /\ lastError = "ValidationError" =>
          /\ mustBeRejected(lastCommand)
          /\ orderBooks = prevBooks
          /\ trades = prevTrades
          /\ nextTradeId = prevNextTradeId

\* C18 witness: a rejected command met a book with a resting entry and a
\* trade log with a trade.
C18_Witness ==
    /\ lastError = "ValidationError"
    /\ trades # <<>>
    /\ \E q \in DOMAIN orderBooks :
          restingEntries(orderBooks[q].bids) \cup restingEntries(orderBooks[q].asks) # {}

\* C19: a command whose type_op is neither CREATE nor DELETE is an error:
\* process raises an error for it and changes no state.
C19_OtherTypeOpIsError ==
    (/\ Len(processed) > 0
     /\ lastCommand.type_op \notin {"CREATE", "DELETE"}
     /\ ~mustBeRejected(lastCommand)) =>
        /\ lastError # "none"
        /\ orderBooks = prevBooks
        /\ trades = prevTrades
        /\ nextTradeId = prevNextTradeId

\* the same batch processed by a second fresh Service, all of it within the
\* first millisecond of the clock
secondRun == processRawOrdersOn(freshService, processed, 0)

\* C20: determinism: processing the same command sequence on two fresh
\* Services yields identical outputs: the same serialized final books and the
\* same serialized trade log, every field of every entry and trade included.
C20_Deterministic ==
    /\ getSerializedOrderBooks(orderBooks)
          = getSerializedOrderBooks(secondRun.orderBooks)
    /\ getSerializedTrades(trades) = getSerializedTrades(secondRun.trades)

\* the price a serialized entry shows
shownPrice(e) == CHOOSE p \in Prices : decimalToString(p) = e.limit_price

\* a serialized side lists its entries in price order (best first; descending
\* for bids, ascending for asks) and, within one price, oldest first: the
\* n-th CREATE carries order_id n, so the older entry has the smaller order_id
listedInOrder(entries, desc) ==
    \A i, j \in 1..Len(entries) :
        i < j =>
            /\ IF desc THEN shownPrice(entries[i]) >= shownPrice(entries[j])
                       ELSE shownPrice(entries[i]) <= shownPrice(entries[j])
            /\ shownPrice(entries[i]) = shownPrice(entries[j]) =>
                  entries[i].order_id <= entries[j].order_id

\* C21: for the book reached by any command sequence, the serialized book of a
\* pair lists bids in descending price order and asks in ascending price order,
\* and within one price lists the entries oldest first.
C21_SerializedInOrder ==
    \A q \in DOMAIN orderBooks :
        LET out == getSerializedOrderBooks(orderBooks)[q]
        IN  /\ listedInOrder(out.bids, TRUE)
            /\ listedInOrder(out.asks, FALSE)

\* the highest and the lowest price of a non-empty set of prices
highest(ps) == CHOOSE p \in ps : \A q \in ps : q <= p
lowest(ps) == CHOOSE p \in ps : \A q \in ps : q >= p

\* C22: after any command sequence, best_bid(book) is the highest price at
\* which a bid entry actually rests and is null exactly when no bid rests;
\* best_ask(book) is the lowest price at which an ask entry actually rests and
\* is null exactly when no ask rests; spread(book) is best_ask minus best_bid
\* and is null exactly when either side has no resting entry.  (0 is the null
\* of the best prices, <<>> the null of the spread.)
C22_BestPricesAreResting ==
    \A q \in DOMAIN orderBooks :
        LET bidsAt == restingPrices(orderBooks[q].bids)
            asksAt == restingPrices(orderBooks[q].asks)
        IN  /\ getBestBidPrice(orderBooks[q])
                  = (IF bidsAt = {} THEN 0 ELSE highest(bidsAt))
            /\ getBestAskPrice(orderBooks[q])
                  = (IF asksAt = {} THEN 0 ELSE lowest(asksAt))
            /\ getSpread(orderBooks[q])
                  = (IF bidsAt = {} \/ asksAt = {} THEN <<>>
                     ELSE <<lowest(asksAt) - highest(bidsAt)>>)

\* the trades of the log are ordered by generation: the trades of an earlier
\* CREATE stand before the trades of a later one (the n-th CREATE carries
\* order_id n), and the trades of one CREATE in the order the match walks the
\* levels, best price first
orderedByGeneration(log) ==
    \A i, j \in 1..Len(log) :
        i < j =>
            /\ log[i].taker_order_id <= log[j].taker_order_id
            /\ log[i].taker_order_id = log[j].taker_order_id =>
                  ~strictlyBetter(createOf(log[i].taker_order_id).side,
                                  log[j].price, log[i].price)

\* C23: the trade log is append-only and ordered by generation: the log after
\* any process(command) has the log before it as a prefix, every earlier trade
\* unchanged; what a command adds are its trades in the order the match
\* produced them; trades of an earlier command precede trades of a later one.
C23_TradeLogAppendOnly ==
    /\ [][/\ Len(trades') >= Len(trades)
          /\ SubSeq(trades', 1, Len(trades)) = trades
          /\ processed' # processed =>
                SubSeq(trades', Len(trades) + 1, Len(trades')) = lastTrades']_vars
    /\ [](orderedByGeneration(trades))

\* C23 witness: a command with two trades added them to a log that held a trade
C23_Witness ==
    /\ afterCreate
    /\ prevTrades # <<>>
    /\ Len(lastTrades) >= 2
    /\ trades = prevTrades \o lastTrades

\* every entry resting in some book of the service
allRestingEntries ==
    UNION {restingEntries(orderBooks[q].bids) \cup restingEntries(orderBooks[q].asks) :
             q \in DOMAIN orderBooks}

\* the queues of the service
allQueues ==
    UNION {{orderBooks[q].bids.priceLevels[p].orders :
               p \in DOMAIN orderBooks[q].bids.priceLevels}
           \cup {orderBooks[q].asks.priceLevels[p].orders :
                    p \in DOMAIN orderBooks[q].asks.priceLevels} :
             q \in DOMAIN orderBooks}

\* C24: each accepted command is promoted to an Order whose timestamp is
\* strictly greater than the timestamp of every previously accepted command of
\* the same Service, so that within every level the queue is in strictly
\* ascending timestamp order.  (The n-th CREATE carries order_id n; an entry
\* keeps the timestamp of its Order.)
C24_TimestampsStrictlyIncrease ==
    /\ \A e1, e2 \in allRestingEntries :
          e1.order_id < e2.order_id => e1.timestamp < e2.timestamp
    /\ \A orders \in allQueues :
          \A i, j \in 1..Len(orders) :
              i < j => orders[i].timestamp < orders[j].timestamp

\* a side breaks a book invariant: a level's totalVolume is negative, prices
\* and priceLevels disagree on membership, or a price of prices has a level
\* with zero orders
sideInvariantBroken(side) ==
    \/ \E p \in DOMAIN side.priceLevels : side.priceLevels[p].totalVolume < 0
    \/ Range(side.prices) # DOMAIN side.priceLevels
    \/ \E p \in Range(side.prices) :
          p \in DOMAIN side.priceLevels /\ Len(side.priceLevels[p].orders) = 0

\* C25: the engine aborts with MatchingError whenever an operation would
\* return leaving a broken book invariant: no operation returns normally with
\* a side in that condition.
C25_BrokenInvariantAborts ==
    (\E q \in DOMAIN orderBooks :
        sideInvariantBroken(orderBooks[q].bids)
        \/ sideInvariantBroken(orderBooks[q].asks))
    => lastError # "none"

\* C26: self-trade is not suppressed: a taker whose account_id equals the
\* account_id of the head maker at a compatible price trades with it exactly
\* as it would with any other account: whatever the maker's account, the first
\* trade of the command is with the head maker of the best resting price, for
\* the smaller of the two amounts, and carries both account ids; for the same
\* account its maker_account_id equals its taker_account_id.
C26_SelfTradeNotSuppressed ==
    afterCreate =>
        LET cmd == lastCommand
            oppBefore == sideAgainst(bookBefore(cmd.pair), cmd.side)
        IN  restingPrices(oppBefore) # {} =>
              LET p == bestRestingPrice(cmd.side, oppBefore)
                  maker == oppBefore.priceLevels[p].orders[1]
              IN  limitAdmits(cmd, p) =>
                    /\ lastTrades # <<>>
                    /\ lastTrades[1].maker_order_id = maker.order_id
                    /\ lastTrades[1].taker_order_id = cmd.order_id
                    /\ lastTrades[1].maker_account_id = maker.account_id
                    /\ lastTrades[1].taker_account_id = cmd.account_id
                    /\ lastTrades[1].amount
                          = (IF cmd.amount <= maker.amount THEN cmd.amount
                             ELSE maker.amount)
                    /\ maker.account_id = cmd.account_id =>
                          lastTrades[1].maker_account_id
                             = lastTrades[1].taker_account_id

\* C26 witness: the last command traded with an entry of its own account, and
\* the log also holds a trade between two accounts
C26_Witness ==
    /\ afterCreate
    /\ lastTrades # <<>>
    /\ lastTrades[1].maker_account_id = lastCommand.account_id
    /\ lastTrades[1].taker_account_id = lastCommand.account_id
    /\ \E i \in 1..Len(trades) : trades[i].maker_account_id # trades[i].taker_account_id

\* C27: every trade's pair equals the pair of the command that created its
\* maker and the pair of the command that created its taker: orders submitted
\* for different pairs never trade with each other.
C27_TradesStayInPair ==
    \A i \in 1..Len(trades) :
        /\ trades[i].pair = createOf(trades[i].maker_order_id).pair
        /\ trades[i].pair = createOf(trades[i].taker_order_id).pair

\* C27 witness: a bid rests in one pair and an ask at a price the bid admits
\* rests in another pair, and a trade was made within a pair
C27_Witness ==
    /\ trades # <<>>
    /\ \E q1, q2 \in DOMAIN orderBooks :
          /\ q1 # q2
          /\ \E b \in restingPrices(orderBooks[q1].bids) :
                \E a \in restingPrices(orderBooks[q2].asks) : a <= b

\* what the match of the last command left of the taker: the command's amount
\* less the amounts of its trades
takerResidual == lastCommand.amount - takenBefore(lastTrades, Len(lastTrades))

\* C28: matching is exhaustive: when the match step of a CREATE ends, either
\* the taker's residual amount is zero or no entry rests on the opposite side
\* at a price compatible with the taker's limit (BUY: no ask priced at or
\* below the limit; SELL: no bid priced at or above the limit).
C28_MatchingExhaustive ==
    afterCreate =>
        LET cmd == lastCommand
            oppAfter == sideAgainst(orderBooks[cmd.pair], cmd.side)
        IN  \/ takerResidual = 0
            \/ \A p \in restingPrices(oppAfter) : ~limitAdmits(cmd, p)

\* C28 witness: the taker traded, kept a residual, and what still rests on the
\* opposite side is priced beyond its limit
C28_Witness ==
    /\ afterCreate
    /\ lastTrades # <<>>
    /\ takerResidual > 0
    /\ restingPrices(sideAgainst(orderBooks[lastCommand.pair], lastCommand.side)) # {}

\* what the trades of a list took at one price
RECURSIVE takenAtPrice(_, _)
takenAtPrice(ts, p) ==
    IF ts = <<>> THEN 0
    ELSE (IF Head(ts).price = p THEN Head(ts).amount ELSE 0)
         + takenAtPrice(Tail(ts), p)

\* the last fill of the last command met a maker larger than what the taker
\* had left
lastFillIsPartial ==
    /\ afterCreate
    /\ lastTrades # <<>>
    /\ LET t == lastTrades[Len(lastTrades)]
           oppBefore == sideAgainst(bookBefore(lastCommand.pair), lastCommand.side)
       IN  t.amount < entryOf(oppBefore, t.maker_order_id).amount

bookAfterMatch ==
    matchOrder(createOrder(lastCommand, now), bookBefore(lastCommand.pair),
               prevNextTradeId, now).orderBook

\* a sequence of prices is in the order of its side: descending for the side
\* of BUY, ascending for the side of SELL
inSideOrder(prices, side) ==
    \A i, j \in 1..Len(prices) :
        i < j => IF side = "BUY" THEN prices[i] >= prices[j]
                                 ELSE prices[i] <= prices[j]

C31_CancelledNeverTrades ==
    \A c \in cancelledAt :
        /\ \A i \in (c.tradesThen + 1)..Len(trades) :
              trades[i].maker_order_id # c.order_id
        /\ \A e \in allRestingEntries : e.order_id # c.order_id

\* C31 witness: after the cancel of an order, a CREATE of the other side, at a
\* price the cancelled order admitted, found nothing to trade with
C31_Witness ==
    /\ afterCreate
    /\ lastTrades = <<>>
    /\ \E c \in cancelledAt :
          /\ createOf(c.order_id).pair = lastCommand.pair
          /\ createOf(c.order_id).side # lastCommand.side
          /\ limitAdmits(lastCommand, createOf(c.order_id).limit_price)


\* ---- C32
\* what the loops have still to go through: the prices left in the working
\* sequence, the taker's remaining amount and the makers queued on the
\* opposite side, the level being matched taken from matchAtPriceLevel's view
RECURSIVE queuedMakersOf(_, _)
queuedMakersOf(levels, ps) ==
    IF ps = {} THEN 0
    ELSE LET p == CHOOSE q \in ps : TRUE
         IN  Len(levels[p].orders) + queuedMakersOf(levels, ps \ {p})

queuedMakers(levels) == queuedMakersOf(levels, DOMAIN levels)

takerRemaining ==
    IF matching.phase = "inner" THEN frame.inner[1].order.amount
    ELSE frame.ms.remainingOrder.amount

loopVariant ==
    IF matching.phase = "idle" THEN 0
    ELSE 3 * ( Len(frame.ms.pricesToMatch) + takerRemaining
               + queuedMakers(IF matching.phase = "inner"
                              THEN mapSet(frame.ms.oppositeSide.priceLevels,
                                          frame.ms.pricesToMatch[1],
                                          frame.inner[1].priceLevel)
                              ELSE frame.ms.oppositeSide.priceLevels) )
         + (CASE matching.phase = "outer" -> 2
              [] matching.phase = "inner" -> 1
              [] OTHER -> 0)

\* C32: every call terminates: while matchOrder runs, each step of its loops
\* ends the call or strictly lowers a natural-number measure made of the
\* prices left in the working sequence, the taker's remaining amount and the
\* number of queued makers, and a call that has started always returns
C32_EveryCallTerminates ==
    /\ [][matching.phase # "idle" =>
             \/ matching'.phase = "idle"
             \/ loopVariant' < loopVariant /\ loopVariant' >= 0]_vars
    /\ (matching.phase # "idle") ~> (matching.phase = "idle")

\* the call that has just returned went past a price of the opposite side
\* that had no level, and matched nothing
C32_Witness ==
    /\ matching.phase = "idle"
    /\ afterCreate
    /\ lastTrades = <<>>
    /\ LET against == sideAgainst(bookBefore(lastCommand.pair), lastCommand.side)
       IN  \E p \in Range(against.prices) :
              /\ p \notin DOMAIN against.priceLevels
              /\ limitAdmits(lastCommand, p)


\* ---- C33
\* the amount traded so far by the order id, as taker and as maker
RECURSIVE tradedBy(_, _)
tradedBy(ts, id) ==
    IF ts = <<>> THEN 0
    ELSE (IF Head(ts).taker_order_id = id THEN Head(ts).amount ELSE 0)
         + (IF Head(ts).maker_order_id = id THEN Head(ts).amount ELSE 0)
         + tradedBy(Tail(ts), id)

\* C33: no order is overfilled: for every order id, the amounts of the trades
\* that name it as taker plus those that name it as maker never exceed the
\* amount of its CREATE
C33_NoOrderOverfilled ==
    \A i \in 1..Len(processed) :
        processed[i].type_op = "CREATE" =>
            tradedBy(trades, processed[i].order_id) <= processed[i].amount


\* ---- C34
\* how often the order id occurs in a serialized side
timesListed(listed, id) ==
    Cardinality({i \in 1..Len(listed) : listed[i].order_id = id})

\* C34: the serialized book contains every resting entry exactly once, on the
\* side it rests on, also after a level was emptied by matching and a new
\* order rested at the same price
C34_EachRestingEntryListedOnce ==
    \A pair \in DOMAIN orderBooks :
        LET out == getSerializedOrderBooks(orderBooks)[pair]
        IN  /\ \A e \in restingEntries(orderBooks[pair].bids) :
                   timesListed(out.bids, e.order_id) = 1
            /\ \A e \in restingEntries(orderBooks[pair].asks) :
                   timesListed(out.asks, e.order_id) = 1


\* ---- C35
\* C35: every resting entry has a strictly positive amount
C35_RestingAmountsPositive ==
    \A e \in allRestingEntries : e.amount > 0

\* a maker was filled in part by the last command and still rests
C35_Witness ==
    /\ afterCreate
    /\ \E e \in allRestingEntries :
          /\ e.amount < createOf(e.order_id).amount
          /\ \E i \in 1..Len(lastTrades) : lastTrades[i].maker_order_id = e.order_id


\* ---- C36
\* C36: a DELETE never changes the trade log or the next trade id, whether it
\* succeeds or fails; only a CREATE emits trades
C36_DeleteLeavesTradesAlone ==
    /\ (Len(processed) > 0 /\ lastCommand.type_op = "DELETE") =>
           /\ trades = prevTrades
           /\ nextTradeId = prevNextTradeId
           /\ lastTrades = <<>>
    /\ (trades # prevTrades \/ nextTradeId # prevNextTradeId) =>
           (Len(processed) > 0 /\ lastCommand.type_op = "CREATE")

\* an accepted DELETE on a service that has traded, for an order that an
\* opposite order of the book admits
C36_Witness ==
    /\ afterDelete
    /\ lastRemoved
    /\ trades # <<>>
    /\ \E e \in restingEntries(sideAgainst(bookBefore(lastCommand.pair), lastCommand.side)) :
          limitAdmits(lastCommand, e.limit_price)


\* ---- C37
\* C37: a command for a pair leaves the book of every other pair as it was;
\* a command for a pair not seen before adds exactly one book, that of its
\* pair, created empty before the dispatch: a DELETE that then fails leaves
\* it empty, a CREATE leaves in it its own order and nothing else
C37_OtherPairsUntouched ==
    Len(processed) > 0 =>
        LET pair == lastCommand.pair
        IN  /\ DOMAIN orderBooks = DOMAIN prevBooks \cup {pair}
            /\ \A q \in DOMAIN prevBooks \ {pair} : orderBooks[q] = prevBooks[q]
            /\ (pair \notin DOMAIN prevBooks /\ lastCommand.type_op = "DELETE") =>
                   /\ orderBooks[pair] = createOrderBook(pair)
                   /\ ~lastRemoved
            /\ (pair \notin DOMAIN prevBooks /\ lastCommand.type_op = "CREATE") =>
                   /\ restingEntries(sideAgainst(orderBooks[pair], lastCommand.side)) = {}
                   /\ \A e \in restingEntries(sideOfOrder(orderBooks[pair], lastCommand.side)) :
                          e.order_id = lastCommand.order_id
                   /\ lastTrades = <<>>

\* a DELETE for a pair not seen before has failed while entries rest in the
\* book of another pair
C37_Witness ==
    /\ Len(processed) > 0
    /\ lastCommand.type_op = "DELETE"
    /\ ~lastRemoved
    /\ lastCommand.pair \notin DOMAIN prevBooks
    /\ lastCommand.pair \in DOMAIN orderBooks
    /\ \E q \in DOMAIN prevBooks :
          restingEntries(prevBooks[q].bids) \cup restingEntries(prevBooks[q].asks) # {}


\* ---- C38
\* the service as the batch has left it
serviceNow == [orderBooks |-> orderBooks, trades |-> trades, nextTradeId |-> nextTradeId]

\* the k-th command was rejected: the service is the one commands 1..k-1
\* leave, none of them was rejected, and a batch that goes on after the k-th
\* command leaves the same service
stateAtError ==
    lastError # "none" =>
        LET k == Len(processed)
        IN  /\ halted
            /\ serviceNow = processRawOrdersOn(freshService, SubSeq(processed, 1, k - 1), now)
            /\ \A i \in 1..(k - 1) : ~mustBeRejected(processed[i])
            /\ \A more \in WellFormedCommands :
                   processRawOrdersOn(freshService, Append(processed, more), now) = serviceNow

\* C38: in processRawOrders, when the k-th command is rejected with an error
\* the service is exactly the one left by commands 1..k-1, the error reaches
\* the caller, and no command after the k-th is processed
C38_BatchStopsAtFirstError ==
    /\ []stateAtError
    /\ [][lastError = "none" /\ ~halted]_vars

\* the second command of a batch was rejected, the first rests in the book,
\* and the batch could have gone on
C38_Witness ==
    /\ lastError # "none"
    /\ Len(processed) = 2
    /\ Len(processed) < MaxCmds
    /\ allRestingEntries # {}

====
